---- MODULE Spec2Model ----
(***************************************************************************)
(* Model of demo/record.py: the shellwright demo recorder.  main()         *)
(* connects to the endpoint, performs the handshake and runs               *)
(* demo_save_restore(), a fixed linear list of tool invocations, waits     *)
(* and downloads.  The endpoint (every response, every exception) and the  *)
(* artifact fetch are the environment and are chosen nondeterministically. *)
(*                                                                         *)
(* Strings are TLA+ strings; Len, SubSeq and \o work on them, so           *)
(* json.loads, the substring tests of main() and os.path.join are          *)
(* computed character by character.                                        *)
(***************************************************************************)
EXTENDS Integers, Sequences, FiniteSets, TLC

(***************************************************************************)
(* Characters and substrings                                               *)
(***************************************************************************)
Ch(s, i) == SubSeq(s, i, i)

\* Python's `sub in s` for strings
Contains(sub, s) ==
    \E i \in 1..(Len(s) - Len(sub) + 1) : SubSeq(s, i, i + Len(sub) - 1) = sub

UpperChars == <<"A","B","C","D","E","F","G","H","I","J","K","L","M",
                "N","O","P","Q","R","S","T","U","V","W","X","Y","Z">>
LowerChars == <<"a","b","c","d","e","f","g","h","i","j","k","l","m",
                "n","o","p","q","r","s","t","u","v","w","x","y","z">>

LowerChar(c) ==
    IF \E i \in 1..26 : UpperChars[i] = c
    THEN LowerChars[CHOOSE i \in 1..26 : UpperChars[i] = c]
    ELSE c

\* the characters lo..hi of s in lower case (by halves, to keep the
\* evaluation shallow)
RECURSIVE LowerRange(_, _, _)
LowerRange(s, lo, hi) ==
    IF lo > hi THEN ""
    ELSE IF lo = hi THEN LowerChar(Ch(s, lo))
    ELSE LET mid == (lo + hi) \div 2
         IN  LowerRange(s, lo, mid) \o LowerRange(s, mid + 1, hi)

\* str.lower()
Lower(s) == LowerRange(s, 1, Len(s))

\* the least element of a non-empty set of integers
Least(S) == CHOOSE j \in S : \A k \in S : j <= k

(***************************************************************************)
(* JSON values.  Every Python value the program handles is a record        *)
(*   [t, s, items]: t is the Python type, s the text of a scalar, items    *)
(*   the members <<[k, x], ...>> of a dict or the elements of a list.      *)
(***************************************************************************)
PyStr(s)    == [t |-> "str",  s |-> s,  items |-> <<>>]
PyNum(s)    == [t |-> "num",  s |-> s,  items |-> <<>>]
PyLit(s)    == [t |-> "lit",  s |-> s,  items |-> <<>>]
PyList(xs)  == [t |-> "list", s |-> "", items |-> xs]
PyDict(kvs) == [t |-> "dict", s |-> "", items |-> kvs]
PyNone      == PyLit("null")

\* d[k] = x on a dict's member list: a repeated key keeps its position and
\* takes the last value
DictPut(kvs, k, x) ==
    IF \E i \in 1..Len(kvs) : kvs[i].k = k
    THEN [i \in 1..Len(kvs) |-> IF kvs[i].k = k THEN [k |-> k, x |-> x] ELSE kvs[i]]
    ELSE Append(kvs, [k |-> k, x |-> x])

HasKey(d, k) == \E i \in 1..Len(d.items) : d.items[i].k = k
Get(d, k)    == d.items[CHOOSE i \in 1..Len(d.items) : d.items[i].k = k].x

(***************************************************************************)
(* json.loads: a recursive-descent parser over the characters of the text. *)
(* A parse result is [ok, val, next]; next is the index after the value.   *)
(* Supported: objects, arrays, strings without escapes, integers, true,    *)
(* false, null, and whitespace between tokens.                             *)
(***************************************************************************)
Digits == {"0","1","2","3","4","5","6","7","8","9"}
Ws     == {" ", "\t", "\n", "\r"}
Quote  == "\""

Fail == [ok |-> FALSE, val |-> PyNone, next |-> 0]
Ok(v, n) == [ok |-> TRUE, val |-> v, next |-> n]

\* the first index from i on that holds no whitespace, Len(s) + 1 if none
SkipWs(s, i) ==
    IF i > Len(s) THEN i
    ELSE Least({ j \in i..(Len(s) + 1) : j = Len(s) + 1 \/ Ch(s, j) \notin Ws })

\* index of the closing quote of the string whose first character is at i,
\* or 0 when the string is unterminated or holds a character this model
\* (backslash) or strict JSON (control character) does not accept
ScanString(s, i) ==
    LET quotes == { j \in i..Len(s) : Ch(s, j) = Quote } IN
    IF quotes = {} THEN 0
    ELSE LET j == Least(quotes) IN
         IF \E k \in i..(j - 1) : Ch(s, k) \in Ws \ {" "} \/ Ch(s, k) = "\\" THEN 0 ELSE j

\* the first index from i on that holds no digit, Len(s) + 1 if none
ScanDigits(s, i) ==
    IF i > Len(s) THEN i
    ELSE Least({ j \in i..(Len(s) + 1) : j = Len(s) + 1 \/ Ch(s, j) \notin Digits })

StartsAt(s, i, w) == i + Len(w) - 1 <= Len(s) /\ SubSeq(s, i, i + Len(w) - 1) = w

ParseNumber(s, i) ==
    LET d == IF Ch(s, i) = "-" THEN i + 1 ELSE i
        e == ScanDigits(s, d)
    IN  IF e = d \/ (e - d > 1 /\ Ch(s, d) = "0") THEN Fail
        ELSE Ok(PyNum(SubSeq(s, i, e - 1)), e)

RECURSIVE ParseValue(_, _)
RECURSIVE ParseMembers(_, _, _)
RECURSIVE ParseElements(_, _, _)

\* the value that starts at index i (after whitespace)
ParseValue(s, i0) ==
    LET i == SkipWs(s, i0) IN
    IF i > Len(s) THEN Fail
    ELSE LET c == Ch(s, i) IN
         IF c = Quote THEN
             LET j == ScanString(s, i + 1) IN
             IF j = 0 THEN Fail ELSE Ok(PyStr(SubSeq(s, i + 1, j - 1)), j + 1)
         ELSE IF c = "{" THEN
             LET j == SkipWs(s, i + 1) IN
             IF j <= Len(s) /\ Ch(s, j) = "}" THEN Ok(PyDict(<<>>), j + 1)
             ELSE ParseMembers(s, j, <<>>)
         ELSE IF c = "[" THEN
             LET j == SkipWs(s, i + 1) IN
             IF j <= Len(s) /\ Ch(s, j) = "]" THEN Ok(PyList(<<>>), j + 1)
             ELSE ParseElements(s, j, <<>>)
         ELSE IF StartsAt(s, i, "true")  THEN Ok(PyLit("true"), i + 4)
         ELSE IF StartsAt(s, i, "false") THEN Ok(PyLit("false"), i + 5)
         ELSE IF StartsAt(s, i, "null")  THEN Ok(PyLit("null"), i + 4)
         ELSE IF c = "-" \/ c \in Digits THEN ParseNumber(s, i)
         ELSE Fail

\* "key": value pairs up to the closing brace; i is at the next key
ParseMembers(s, i, acc) ==
    IF i > Len(s) \/ Ch(s, i) # Quote THEN Fail
    ELSE LET j == ScanString(s, i + 1) IN
         IF j = 0 THEN Fail
         ELSE LET key == SubSeq(s, i + 1, j - 1)
                  c   == SkipWs(s, j + 1)
              IN  IF c > Len(s) \/ Ch(s, c) # ":" THEN Fail
                  ELSE LET r == ParseValue(s, c + 1) IN
                       IF ~r.ok THEN Fail
                       ELSE LET n    == SkipWs(s, r.next)
                                acc2 == DictPut(acc, key, r.val)
                            IN  IF n > Len(s) THEN Fail
                                ELSE IF Ch(s, n) = "}" THEN Ok(PyDict(acc2), n + 1)
                                ELSE IF Ch(s, n) = ","
                                     THEN ParseMembers(s, SkipWs(s, n + 1), acc2)
                                ELSE Fail

\* values up to the closing bracket; i is at the next element
ParseElements(s, i, acc) ==
    LET r == ParseValue(s, i) IN
    IF ~r.ok THEN Fail
    ELSE LET n    == SkipWs(s, r.next)
             acc2 == Append(acc, r.val)
         IN  IF n > Len(s) THEN Fail
             ELSE IF Ch(s, n) = "]" THEN Ok(PyList(acc2), n + 1)
             ELSE IF Ch(s, n) = "," THEN ParseElements(s, SkipWs(s, n + 1), acc2)
             ELSE Fail

\* json.loads(text): ok is FALSE where Python raises json.JSONDecodeError
json_loads(text) ==
    LET r == ParseValue(text, 1) IN
    IF r.ok /\ SkipWs(text, r.next) = Len(text) + 1 THEN r ELSE Fail


(***************************************************************************)
(* Module constants of record.py                                           *)
(***************************************************************************)
SHELLWRIGHT_URL   == "http://localhost:7498"
OUTPUT_DIR        == "./demo/output"
DEMO_HOST         == "aspire"
RESURRECT_SAVE    == "~/.tmux/plugins/tmux-resurrect/scripts/save.sh"
RESURRECT_RESTORE == "~/.tmux/plugins/tmux-resurrect/scripts/restore.sh"
\* "\x01" in the source; TLA+ strings have no escape for U+0001, the form
\* feed stands for it
CTRL_A            == "\f"
ENTER             == "\r"

(***************************************************************************)
(* Arguments of a tool invocation: a Python dict, kept as the ordered      *)
(* list of its items [k, v, q]; q is the Python type of the value.         *)
(***************************************************************************)
StrArg(k, v)  == [k |-> k, v |-> v, q |-> "str"]
NumArg(k, v)  == [k |-> k, v |-> v, q |-> "num"]
ListArg(k, v) == [k |-> k, v |-> v, q |-> "list"]

ArgHas(args, k) == \E i \in 1..Len(args) : args[i].k = k
ArgOf(args, k)  == args[CHOOSE i \in 1..Len(args) : args[i].k = k].v

EscapeChar(c) ==
    IF c = "\r" THEN "\\r"
    ELSE IF c = "\n" THEN "\\n"
    ELSE IF c = "\t" THEN "\\t"
    ELSE IF c = "\f" THEN "\\x01"
    ELSE IF c = "\\" THEN "\\\\"
    ELSE c

\* the characters lo..hi of s, escaped as repr does
RECURSIVE EscapeRange(_, _, _)
EscapeRange(s, lo, hi) ==
    IF lo > hi THEN ""
    ELSE IF lo = hi THEN EscapeChar(Ch(s, lo))
    ELSE LET mid == (lo + hi) \div 2
         IN  EscapeRange(s, lo, mid) \o EscapeRange(s, mid + 1, hi)

\* repr(v), the {v!r} of the log line: a str is quoted (in double quotes
\* when it holds a single quote and no double quote) and escaped
Repr(a) ==
    IF a.q = "str"
    THEN LET qc == IF Contains("'", a.v) /\ ~Contains(Quote, a.v) THEN Quote ELSE "'"
         IN  qc \o EscapeRange(a.v, 1, Len(a.v)) \o qc
    ELSE a.v

RECURSIVE JoinFields(_, _)
JoinFields(args, i) ==
    IF i > Len(args) THEN ""
    ELSE args[i].k \o "=" \o Repr(args[i]) \o
         (IF i < Len(args) THEN ", " ELSE "") \o JoinFields(args, i + 1)

\* the log line without the `if k != 'session_id'` filter
PrintedArgsAll(args) == args

PrintedArgs(args) == SelectSeq(args, LAMBDA a : a.k # "session_id")

\* the line call_tool prints (without the ANSI colour codes)
LogLine(name, args) == "  " \o name \o "(" \o JoinFields(PrintedArgs(args), 1) \o ")"

(***************************************************************************)
(* The scenario: the statements of start_shell, setup_ssh and              *)
(* demo_save_restore in program order.  kind is "call" (await call_tool),  *)
(* "sid" (sid = shell["shell_session_id"]), "wait" (await wait) or         *)
(* "download" (await download(data, output_dir)).  sess says whether the   *)
(* call carries session_id, bind whether its result is kept in data or     *)
(* shell, secs is the wait in tenths of a second, state is the state of    *)
(* the scenario the statement belongs to ("" for the settle delay that     *)
(* follows a transition).                                                  *)
(***************************************************************************)
Call(tool, sess, args, bind, state) ==
    [kind |-> "call", tool |-> tool, sess |-> sess, args |-> args,
     bind |-> bind, secs |-> 0, state |-> state]
Send(input, delay, state) ==
    Call("shell_send", TRUE, <<StrArg("input", input), NumArg("delay_ms", delay)>>, "", state)
\* a screenshot whose result is not assigned to data
ShotUnbound(name, state) ==
    Call("shell_screenshot", TRUE, <<StrArg("name", name)>>, "", state)

Shot(name, state) ==
    Call("shell_screenshot", TRUE, <<StrArg("name", name)>>, "data", state)
WaitStep(secs, state) ==
    [kind |-> "wait", tool |-> "", sess |-> FALSE, args |-> <<>>,
     bind |-> "", secs |-> secs, state |-> state]
DownloadStep(state) ==
    [kind |-> "download", tool |-> "", sess |-> FALSE, args |-> <<>>,
     bind |-> "", secs |-> 0, state |-> state]
SidStep(state) ==
    [kind |-> "sid", tool |-> "", sess |-> FALSE, args |-> <<>>,
     bind |-> "", secs |-> 0, state |-> state]

ListPanes ==
    "tmux list-panes -a -F '#{session_name}:#{window_index}.#{pane_index} active=#{pane_active} cmd=#{pane_current_command}'\r"

start_shell == <<
    Call("shell_start", FALSE,
         <<StrArg("command", "bash"), ListArg("args", "['--login', '-i']"),
           NumArg("cols", "140"), NumArg("rows", "35"), StrArg("theme", "one-dark")>>,
         "shell", "bootstrap"),
    SidStep("bootstrap"),
    Send("export PS1='$ '\r", "500", "bootstrap") >>

\* setup_ssh without the final screen clear
setup_ssh_NoClear == <<
    Send("ssh " \o DEMO_HOST \o "\r", "3000", "remote-shell-entry"),
    Send("export PS1='$ '\r", "500", "remote-shell-entry") >>

setup_ssh == <<
    Send("ssh " \o DEMO_HOST \o "\r", "3000", "remote-shell-entry"),
    Send("export PS1='$ '\r", "500", "remote-shell-entry"),
    Send("clear\r", "500", "remote-shell-entry") >>

demo_body == <<
    Call("shell_record_start", TRUE, <<NumArg("fps", "8")>>, "", "recording-start"),
    Send("tmux list-sessions\r", "1500", "list-sessions"),               WaitStep(15, ""),
    Send("tmux list-windows -a\r", "1000", "list-windows"),              WaitStep(10, ""),
    Send(ListPanes, "1000", "list-panes"),                               WaitStep(15, ""),
    Send("tmux run-shell " \o RESURRECT_SAVE \o "\r", "500", "trigger-save"),
                                                                         WaitStep(60, ""),
    Send("cat ~/.tmux/resurrect/assistant-sessions.json | jq '[ .sessions[] | {pane, tool, session_id} ]'\r",
         "500", "show-saved-state"),                                     WaitStep(30, ""),
    Shot("verify-saved-json", "verification-capture-1"),
    DownloadStep("verification-capture-1"),
    Send("tmux kill-server\r", "1500", "destroy-server"),                WaitStep(15, ""),
    Send("tmux list-sessions\r", "1500", "show-destroyed-state"),        WaitStep(20, ""),
    Send("tmux new-session -d -s main\r", "2000", "recreate-bootstrap-session"),
    Send("tmux set-option -g @continuum-restore 'off'\r", "500", "disable-auto-restore"),
                                                                         WaitStep(5, ""),
    Send("tmux run-shell " \o RESURRECT_RESTORE \o "\r", "500", "trigger-restore"),
    WaitStep(150, "settle-wait"),
    Send("tmux kill-session -t main 2>/dev/null\r", "500", "cleanup-bootstrap-session"),
                                                                         WaitStep(5, ""),
    Send("clear\r", "500", "clear-screen"),                              WaitStep(5, ""),
    Send("tmux list-sessions\r", "1500", "list-sessions"),               WaitStep(20, ""),
    Send("tmux list-windows -a\r", "1000", "list-windows"),              WaitStep(10, ""),
    Send(ListPanes, "1000", "list-panes"),                               WaitStep(15, ""),
    Send("tail -4 ~/.tmux/resurrect/assistant-restore.log\r", "1500", "show-restore-log"),
                                                                         WaitStep(20, ""),
    Shot("verify-restored-sessions", "verification-capture-2"),
    DownloadStep("verification-capture-2"),
    Send("unset TMUX; tmux attach -t skynet\r", "3000", "attach-to-target-session"),
    WaitStep(80, "settle-wait"),
    Shot("verify-agent-tui", "verification-capture-3"),
    DownloadStep("verification-capture-3"),
    Call("shell_record_stop", TRUE, <<StrArg("name", "demo-save-restore")>>, "data",
         "recording-stop"),
    DownloadStep("recording-stop"),
    Send(CTRL_A \o "d", "1000", "cleanup"),
    Send("tmux set-option -g @continuum-restore 'on' 2>/dev/null\r", "500", "cleanup"),
    Send("exit\r", "500", "cleanup"),
    Call("shell_stop", TRUE, <<>>, "", "terminate") >>

\* a list with its elements i and j exchanged, and with its element i removed
Swap(seq, i, j) ==
    [ n \in 1..Len(seq) |-> IF n = i THEN seq[j] ELSE IF n = j THEN seq[i] ELSE seq[n] ]
Drop(seq, i) == SubSeq(seq, 1, i - 1) \o SubSeq(seq, i + 1, Len(seq))

\* demo_save_restore with shell_stop issued before the final `exit` send
demo_save_restore_StopBeforeExit == start_shell \o setup_ssh \o Swap(demo_body, 45, 46)

\* demo_save_restore with the recording stopped before the last screenshot
demo_save_restore_StopThenShot ==
    start_shell \o setup_ssh \o Swap(Swap(demo_body, 39, 41), 40, 42)

\* demo_save_restore with the restore triggered before auto-restore is
\* disabled
demo_save_restore_RestoreFirst == start_shell \o setup_ssh \o Swap(demo_body, 19, 21)

\* demo_save_restore without the wait that follows the restore
demo_save_restore_NoRestoreWait == start_shell \o setup_ssh \o Drop(demo_body, 22)

\* demo_save_restore without the call of setup_ssh
demo_save_restore_NoSsh == start_shell \o demo_body

\* demo_save_restore: start_shell, setup_ssh, then its own statements
demo_save_restore == start_shell \o setup_ssh \o demo_body

(***************************************************************************)
(* Bounds of the environment                                               *)
(***************************************************************************)
\* number of distinct session handles the endpoint may hand out
NumHandles == 1
\* number of artifacts a previous run may have left in the output directory
MaxOldFiles == 0

HandleSuffix == <<"a1", "b2", "c3", "d4">>
Handles == { "shell-session-" \o HandleSuffix[i] : i \in 1..NumHandles }

(***************************************************************************)
(* Exceptions: the type name and str(e), the two things main() looks at.   *)
(***************************************************************************)
Exc(type, msg) == [type |-> type, msg |-> msg]
NoExc == Exc("", "")

\* streamablehttp_client / session.initialize against an unreachable endpoint
ConnectExcs == { Exc("ConnectError", "All connection attempts failed"),
                 Exc("ExceptionGroup", "unhandled errors in a TaskGroup (1 sub-exception)") }
\* session.call_tool failing once connected
CallExcs == { Exc("McpError", "Connection closed"),
              Exc("McpError", "Session terminated") }
\* urllib.request.urlretrieve: fetch errors and a disk write error
FetchExcs == { Exc("URLError", "<urlopen error [Errno 111] Connection refused>"),
               Exc("HTTPError", "HTTP Error 404: Not Found"),
               Exc("PermissionError", "[Errno 13] Permission denied") }
KeyErrorSid == Exc("KeyError", "'shell_session_id'")
TypeErrorIndex == Exc("TypeError", "indices must be integers")
TypeErrorIter  == Exc("TypeError", "argument is not iterable")
TypeErrorPath  == Exc("TypeError", "expected str, bytes or os.PathLike object")

(***************************************************************************)
(* The endpoint's responses.  result.content is a list of content items;   *)
(* an item is [text, s]: text says whether it has a .text attribute.       *)
(***************************************************************************)
TextItem(s) == [text |-> TRUE,  s |-> s]
ImageItem   == [text |-> FALSE, s |-> ""]

JStr(s) == Quote \o s \o Quote

ArtifactExt(tool) == IF tool = "shell_record_stop" THEN ".gif" ELSE ".png"
FileUrl(f) == SHELLWRIGHT_URL \o "/files/" \o f
ArtifactText(f) ==
    "{" \o JStr("filename") \o ": " \o JStr(f) \o ", "
        \o JStr("download_url") \o ": " \o JStr(FileUrl(f)) \o "}"

ProducesArtifact(step) == step.tool \in {"shell_screenshot", "shell_record_stop"}

\* the texts a well-behaved shellwright returns for the invocation
WellFormedTexts(step) ==
    IF step.tool = "shell_start"
    THEN { "{" \o JStr("shell_session_id") \o ": " \o JStr(h) \o "}" : h \in Handles }
    ELSE IF ProducesArtifact(step)
    THEN { ArtifactText(ArgOf(step.args, "name") \o ArtifactExt(step.tool)) }
    ELSE { "{" \o JStr("success") \o ": true}" }

\* a text as one item, or cut in two items around an image item
Whole(t) == << TextItem(t) >>
Split(t) == << TextItem(SubSeq(t, 1, Len(t) \div 2)), ImageItem,
               TextItem(SubSeq(t, Len(t) \div 2 + 1, Len(t))) >>

WellFormed(step) ==
    { Whole(t) : t \in WellFormedTexts(step) } \cup { Split(t) : t \in WellFormedTexts(step) }

\* responses whose text is not JSON
Undecodable(step) ==
    { << >>, << ImageItem >>, Whole("Error: session not found") }
    \cup { Whole(SubSeq(t, 1, Len(t) - 1)) : t \in WellFormedTexts(step) }

\* responses that are JSON but not what the invocation is documented to return
Unexpected(step) ==
    IF step.tool = "shell_start"
    THEN { Whole("{" \o JStr("success") \o ": true}"), Whole("[" \o JStr("shell_session_id") \o "]") }
    ELSE IF ProducesArtifact(step)
    THEN { Whole("{" \o JStr("filename") \o ": " \o JStr("capture.png") \o "}"),
           Whole("{" \o JStr("download_url") \o ": " \o JStr(FileUrl("capture.png")) \o "}"),
           Whole(ArtifactText("capture.png")),
           Whole("{" \o JStr("filename") \o ": " \o JStr("/tmp/capture.png") \o ", "
                     \o JStr("download_url") \o ": " \o JStr(FileUrl("capture.png")) \o "}"),
           Whole("[" \o JStr("download_url") \o ", " \o JStr("filename") \o "]"),
           Whole("1") }
    ELSE { Whole(ArtifactText("capture.png")) }

Responses(step) == WellFormed(step) \cup Undecodable(step) \cup Unexpected(step)

(***************************************************************************)
(* call_tool, lines 50-58: concatenate the text items, decode; the except  *)
(* clause turns json.loads' JSONDecodeError into the raw fallback          *)
(***************************************************************************)
RECURSIVE ContentText(_, _)
ContentText(content, i) ==
    IF i > Len(content) THEN ""
    ELSE (IF content[i].text THEN content[i].s ELSE "") \o ContentText(content, i + 1)

RawFallback(text) == PyDict(<< [k |-> "raw", x |-> PyStr(text)] >>)

JSONDecodeError == Exc("JSONDecodeError", "Expecting value")

\* call_tool without the except clause: the decoding error escapes
call_tool_NoExcept(content) ==
    LET text == ContentText(content, 1)
        r    == json_loads(text)
    IN  IF r.ok THEN [exc |-> NoExc, val |-> r.val]
        ELSE [exc |-> JSONDecodeError, val |-> PyNone]

\* [exc, val]: the exception that leaves call_tool after the response has
\* arrived (NoExc: none, it returns val)
call_tool(content) ==
    LET text == ContentText(content, 1)
        r    == json_loads(text)
    IN  IF r.ok THEN [exc |-> NoExc, val |-> r.val]
        ELSE [exc |-> NoExc, val |-> RawFallback(text)]

(***************************************************************************)
(* download, lines 61-66                                                   *)
(***************************************************************************)
\* Python's `k in data`: "yes", "no", or "error" where it raises TypeError
In(k, data) ==
    IF data.t = "dict" THEN (IF HasKey(data, k) THEN "yes" ELSE "no")
    ELSE IF data.t = "list"
         THEN (IF \E i \in 1..Len(data.items) : data.items[i] = PyStr(k) THEN "yes" ELSE "no")
    ELSE IF data.t = "str" THEN (IF Contains(k, data.s) THEN "yes" ELSE "no")
    ELSE "error"

\* the path built by plain concatenation, without the separator
os_path_concat(a, b) == a \o b

os_path_join(a, b) ==
    IF Len(b) > 0 /\ Ch(b, 1) = "/" THEN b
    ELSE IF a = "" \/ Ch(a, Len(a)) = "/" THEN a \o b
    ELSE a \o "/" \o b

\* open(path, "wb") and write: an existing file is replaced, else created.
\* The file system is the list of its files [path, content].
WriteFile(fs, path, content) ==
    IF \E i \in 1..Len(fs) : fs[i].path = path
    THEN [i \in 1..Len(fs) |->
             IF fs[i].path = path THEN [path |-> path, content |-> content] ELSE fs[i]]
    ELSE Append(fs, [path |-> path, content |-> content])

\* download with `or` in place of `and` in the condition of line 63: with
\* one key only, the subscript of the missing key raises KeyError
DownloadPlanOr(data, output_dir) ==
    LET a == In("download_url", data)
        b == In("filename", data)
        no == [url |-> "", path |-> "", exc |-> NoExc]
    IN  IF a = "error" \/ b = "error" THEN [do |-> "raise"] @@ [no EXCEPT !.exc = TypeErrorIter]
        ELSE IF a = "no" /\ b = "no" THEN [do |-> "skip"] @@ no
        ELSE IF data.t # "dict" THEN [do |-> "raise"] @@ [no EXCEPT !.exc = TypeErrorIndex]
        ELSE IF a = "no" \/ b = "no"
             THEN [do |-> "raise"] @@ [no EXCEPT !.exc = Exc("KeyError", "'filename'")]
        ELSE [do |-> "fetch"] @@
             [no EXCEPT !.url = Get(data, "download_url").s,
                        !.path = os_path_join(output_dir, Get(data, "filename").s)]

\* what download(data, output_dir) does before it touches the network:
\*   "skip"  the condition of line 63 is false,
\*   "fetch" urlretrieve is called with url and path,
\*   "raise" an exception leaves download at line 63 or 64
DownloadPlan(data, output_dir) ==
    LET a == In("download_url", data)
        b == IF a = "yes" THEN In("filename", data) ELSE "no"
        no == [url |-> "", path |-> "", exc |-> NoExc]
    IN  IF a = "error" \/ b = "error" THEN [do |-> "raise"] @@ [no EXCEPT !.exc = TypeErrorIter]
        ELSE IF a = "no" \/ b = "no" THEN [do |-> "skip"] @@ no
        ELSE IF data.t # "dict" THEN [do |-> "raise"] @@ [no EXCEPT !.exc = TypeErrorIndex]
        ELSE IF Get(data, "filename").t # "str"
             THEN [do |-> "raise"] @@ [no EXCEPT !.exc = TypeErrorPath]
        ELSE [do |-> "fetch"] @@
             [no EXCEPT !.url = Get(data, "download_url").s,
                        !.path = os_path_join(output_dir, Get(data, "filename").s)]

(***************************************************************************)
(* main, lines 387-396: the classification of a caught exception           *)
(***************************************************************************)
IsConnectFailure(e) == Contains("Connect", e.type) \/ Contains("connection", Lower(e.msg))

(***************************************************************************)
(* The host behind the shell, as far as the scenario's own commands and    *)
(* comments describe it (lines 35-37, 213-214, 313-314, 343, 349):         *)
(*   attached     the terminal is inside a tmux client, so keys go to the  *)
(*                pane and not to the shell of the remote host             *)
(*   continuum    the value of the tmux option @continuum-restore          *)
(*   restoredWith the value of that option when restore.sh was run, ""     *)
(*                before                                                   *)
(***************************************************************************)
RemoteInit == [attached |-> FALSE, continuum |-> "on", restoredWith |-> ""]

DisableCommand == "tmux set-option -g @continuum-restore 'off'\r"
EnableCommand  == "tmux set-option -g @continuum-restore 'on' 2>/dev/null\r"
RestoreCommand == "tmux run-shell " \o RESURRECT_RESTORE \o "\r"
AttachCommand  == "unset TMUX; tmux attach -t skynet\r"
DetachKeys     == CTRL_A \o "d"

\* the states the host can be in after `input` has been typed.  A command
\* line is run by the shell only when the terminal is not attached; the
\* detach keys may not take effect (line 349).
AfterSend(input, r) ==
    IF input = DetachKeys THEN { r, [r EXCEPT !.attached = FALSE] }
    ELSE IF r.attached THEN { r }
    ELSE IF input = AttachCommand THEN { [r EXCEPT !.attached = TRUE] }
    ELSE IF input = DisableCommand THEN { [r EXCEPT !.continuum = "off"] }
    ELSE IF input = EnableCommand THEN { [r EXCEPT !.continuum = "on"] }
    ELSE IF input = RestoreCommand THEN { [r EXCEPT !.restoredWith = r.continuum] }
    ELSE { r }

(***************************************************************************)
(* State                                                                   *)
(***************************************************************************)
VARIABLES
    phase,      \* where main() is: "start", "opened", "scenario", "except",
                \* or finished: "done", "exit1" (sys.exit(1)), "raised"
    ip,         \* index in demo_save_restore of the next statement
    shell,      \* the local `shell` of start_shell
    sid,        \* the local `sid`, "" before it is bound
    data,       \* the local `data` of demo_save_restore
    result,     \* what the last call_tool returned
    lastText,   \* the concatenated text of the last response
    lastCall,   \* the last invocation: tool, transmitted args, printed line
    lastDl,     \* the last download: its argument and what it did
    trace,      \* every statement executed so far, in order
    files,      \* the file system
    written,    \* the paths written by this run, in order
    exc,        \* the exception in flight or re-raised, NoExc if none
    failStage,  \* what raised: "connect", "handshake", "call" (the RPC),
                \* "decode" (call_tool after the response), "sid", "download";
                \* "" if nothing did
    console,    \* the messages of main(): "connected", "success", "remediation"
    exitStatus, \* the process exit status, -1 while running
    wellFormed, \* every response so far was WellFormed and every fetch succeeded
    remote      \* the host behind the shell

vars == << phase, ip, shell, sid, data, result, lastText, lastCall, lastDl, trace,
           files, written, exc, failStage, console, exitStatus, wellFormed, remote >>

NoCall == [tool |-> "", args |-> << >>, line |-> "", returned |-> FALSE]
NoDl   == [data |-> PyNone, do |-> "none", raised |-> FALSE, wrote |-> FALSE]

\* the artifact a previous run left behind
OldFiles == << [path |-> os_path_join(OUTPUT_DIR, "verify-saved-json.png"),
                content |-> "previous run"],
               [path |-> os_path_join(OUTPUT_DIR, "demo-save-restore.gif"),
                content |-> "previous run"] >>

Init ==
    /\ phase = "start"
    /\ ip = 1
    /\ shell = PyNone
    /\ sid = ""
    /\ data = PyNone
    /\ result = PyNone
    /\ lastText = ""
    /\ lastCall = NoCall
    /\ lastDl = NoDl
    /\ trace = << >>
    /\ files \in { SubSeq(OldFiles, 1, n) : n \in 0..MaxOldFiles }
    /\ written = << >>
    /\ exc = NoExc
    /\ failStage = ""
    /\ console = << >>
    /\ exitStatus = -1
    /\ wellFormed = TRUE
    /\ remote = RemoteInit

Event(step, arg) ==
    [idx |-> ip, kind |-> step.kind, tool |-> step.tool, state |-> step.state,
     arg |-> arg, sid |-> IF step.sess THEN sid ELSE "", secs |-> step.secs]

Raise(e, stage) ==
    /\ phase' = "except"
    /\ exc' = e
    /\ failStage' = stage

(***************************************************************************)
(* main, lines 371-381                                                     *)
(***************************************************************************)
\* os.makedirs, the three prints, and entering streamablehttp_client
Connect ==
    /\ phase = "start"
    /\ \/ /\ phase' = "opened"
          /\ UNCHANGED << exc, failStage >>
       \/ \E e \in ConnectExcs : Raise(e, "connect")
    /\ UNCHANGED << ip, shell, sid, data, result, lastText, lastCall, lastDl, trace,
                    files, written, console, exitStatus, wellFormed, remote >>

\* entering ClientSession, session.initialize(), print "Connected"
Initialize ==
    /\ phase = "opened"
    /\ \/ /\ phase' = "scenario"
          /\ console' = Append(console, "connected")
          /\ UNCHANGED << exc, failStage >>
       \/ /\ \E e \in ConnectExcs : Raise(e, "handshake")
          /\ UNCHANGED console
    /\ UNCHANGED << ip, shell, sid, data, result, lastText, lastCall, lastDl, trace,
                    files, written, exitStatus, wellFormed, remote >>

(***************************************************************************)
(* The statements of the scenario                                          *)
(***************************************************************************)
AtStep(kind) ==
    /\ phase = "scenario"
    /\ ip <= Len(demo_save_restore)
    /\ demo_save_restore[ip].kind = kind

\* the argument dict of the call at step: session_id first when it has one
CallArgs(step) ==
    IF step.sess THEN << StrArg("session_id", sid) >> \o step.args ELSE step.args

CallArg(step) ==
    IF ArgHas(step.args, "input") THEN ArgOf(step.args, "input")
    ELSE IF ArgHas(step.args, "name") THEN ArgOf(step.args, "name")
    ELSE ""

\* a call_tool that, when session.call_tool raises, records the error and
\* issues the same invocation again
CallFailedRetried(e) ==
    /\ failStage' = "call"
    /\ exc' = e
    /\ UNCHANGED << phase, ip >>

\* session.call_tool raised e: nothing catches it in call_tool or its callers
CallFailed(e) ==
    /\ Raise(e, "call")
    /\ UNCHANGED ip

\* await call_tool(session, name, args): print the line, send the request,
\* then either session.call_tool raises or its response is decoded
CallTool ==
    /\ AtStep("call")
    /\ LET step == demo_save_restore[ip]
           args == CallArgs(step)
           call(returned) == [tool |-> step.tool, args |-> args,
                              line |-> LogLine(step.tool, args), returned |-> returned]
       IN  /\ trace' = Append(trace, Event(step, CallArg(step)))
           /\ \/ /\ \E e \in CallExcs : CallFailed(e)
                 /\ lastCall' = call(FALSE)
                 /\ UNCHANGED << shell, data, result, lastText, wellFormed, remote >>
              \/ \E content \in Responses(step) :
                    LET r == call_tool(content) IN
                    /\ lastText' = ContentText(content, 1)
                    /\ wellFormed' = (wellFormed /\ content \in WellFormed(step))
                    /\ remote' \in (IF step.tool = "shell_send"
                                    THEN AfterSend(ArgOf(step.args, "input"), remote)
                                    ELSE { remote })
                    /\ IF r.exc # NoExc
                       THEN /\ Raise(r.exc, "decode")
                            /\ lastCall' = call(FALSE)
                            /\ UNCHANGED << ip, shell, data, result >>
                       ELSE /\ lastCall' = call(TRUE)
                            /\ result' = r.val
                            /\ shell' = IF step.bind = "shell" THEN r.val ELSE shell
                            /\ data' = IF step.bind = "data" THEN r.val ELSE data
                            /\ ip' = ip + 1
                            /\ UNCHANGED << phase, exc, failStage >>
    /\ UNCHANGED << sid, lastDl, files, written, console, exitStatus >>

\* sid = shell["shell_session_id"], line 88
BindSid ==
    /\ AtStep("sid")
    /\ IF shell.t = "dict" /\ HasKey(shell, "shell_session_id")
       THEN /\ sid' = Get(shell, "shell_session_id").s
            /\ ip' = ip + 1
            /\ UNCHANGED << phase, exc, failStage >>
       ELSE /\ Raise(IF shell.t = "dict" THEN KeyErrorSid ELSE TypeErrorIndex, "sid")
            /\ UNCHANGED << sid, ip >>
    /\ UNCHANGED << shell, data, result, lastText, lastCall, lastDl, trace,
                    files, written, console, exitStatus, wellFormed, remote >>

\* await wait(seconds), lines 69-72
Wait ==
    /\ AtStep("wait")
    /\ trace' = Append(trace, Event(demo_save_restore[ip], ""))
    /\ ip' = ip + 1
    /\ UNCHANGED << phase, shell, sid, data, result, lastText, lastCall, lastDl,
                    files, written, exc, failStage, console, exitStatus, wellFormed, remote >>

\* a download that logs the fetch error and lets the scenario go on
FetchFailedIgnored(e) ==
    /\ failStage' = "download"
    /\ exc' = e
    /\ ip' = ip + 1
    /\ UNCHANGED phase

\* urlretrieve raised e: nothing catches it in download or demo_save_restore
FetchFailed(e) ==
    /\ Raise(e, "download")
    /\ UNCHANGED ip

\* await download(data, output_dir), lines 61-66
Download ==
    /\ AtStep("download")
    /\ LET plan == DownloadPlan(data, OUTPUT_DIR)
           done(raised) == [data |-> data, do |-> plan.do, raised |-> raised, wrote |-> FALSE]
       IN  /\ trace' = Append(trace, Event(demo_save_restore[ip], plan.path))
           /\ CASE plan.do = "skip" ->
                     /\ lastDl' = done(FALSE)
                     /\ ip' = ip + 1
                     /\ UNCHANGED << phase, exc, failStage, files, written, wellFormed >>
                [] plan.do = "raise" ->
                     /\ lastDl' = done(TRUE)
                     /\ Raise(plan.exc, "download")
                     /\ UNCHANGED << ip, files, written, wellFormed >>
                [] plan.do = "fetch" ->
                     \/ /\ files' = WriteFile(files, plan.path, plan.url)
                        /\ written' = Append(written, plan.path)
                        /\ lastDl' = [done(FALSE) EXCEPT !.wrote = TRUE]
                        /\ ip' = ip + 1
                        /\ UNCHANGED << phase, exc, failStage, wellFormed, remote >>
                     \/ /\ \E e \in FetchExcs : FetchFailed(e)
                        /\ lastDl' = done(TRUE)
                        /\ wellFormed' = FALSE
                        /\ UNCHANGED << files, written >>
    /\ UNCHANGED << shell, sid, data, result, lastText, lastCall, console, exitStatus,
                    remote >>

(***************************************************************************)
(* main, lines 385-396                                                     *)
(***************************************************************************)
\* demo_save_restore returned: leave both `async with`, print the success line
Finish ==
    /\ phase = "scenario"
    /\ ip = Len(demo_save_restore) + 1
    /\ phase' = "done"
    /\ console' = Append(console, "success")
    /\ exitStatus' = 0
    /\ UNCHANGED << ip, shell, sid, data, result, lastText, lastCall, lastDl, trace,
                    files, written, exc, failStage, wellFormed, remote >>

\* except Exception as e: the remediation message and sys.exit(1), or raise;
\* the interpreter exits with status 1 on the re-raised exception
Except ==
    /\ phase = "except"
    /\ IF IsConnectFailure(exc)
       THEN /\ phase' = "exit1"
            /\ console' = Append(console, "remediation")
       ELSE /\ phase' = "raised"
            /\ UNCHANGED console
    /\ exitStatus' = 1
    /\ UNCHANGED << ip, shell, sid, data, result, lastText, lastCall, lastDl, trace,
                    files, written, exc, failStage, wellFormed, remote >>

Next ==
    \/ Connect
    \/ Initialize
    \/ CallTool
    \/ BindSid
    \/ Wait
    \/ Download
    \/ Finish
    \/ Except

Spec == Init /\ [][Next]_vars

Finished == phase \in {"done", "exit1", "raised"}

TypeOK ==
    /\ phase \in {"start", "opened", "scenario", "except", "done", "exit1", "raised"}
    /\ ip \in 1..(Len(demo_save_restore) + 1)
    /\ exitStatus \in {-1, 0, 1}
    /\ Finished <=> exitStatus # -1
    /\ remote \in [attached : BOOLEAN, continuum : {"on", "off"},
                  restoredWith : {"", "on", "off"}]

(***************************************************************************)
(* Properties                                                              *)
(***************************************************************************)
Calls(tr) == SelectSeq(tr, LAMBDA e : e.kind = "call")

\* the states a trace passes through: the state of every executed statement
\* that has one, a run of statements of the same state counted once
StateSeq(tr) ==
    LET named == SelectSeq(tr, LAMBDA e : e.state # "")
        first == { i \in 1..Len(named) : i = 1 \/ named[i - 1].state # named[i].state }
        nth(n) == CHOOSE i \in first : Cardinality({ j \in first : j <= i }) = n
    IN  [ n \in 1..Cardinality(first) |-> named[nth(n)].state ]

IsPrefix(a, b) == Len(a) <= Len(b) /\ SubSeq(b, 1, Len(a)) = a

\* every statement is executed once, in program order
InProgramOrder(tr) == \A i \in 1..(Len(tr) - 1) : tr[i].idx < tr[i + 1].idx

\* the states of the Scenario Director as the specification lists them
ListedStates == <<
    "bootstrap", "remote-shell-entry", "recording-start",
    "list-sessions", "list-windows", "list-panes",
    "trigger-save", "show-saved-state", "verification-capture-1",
    "destroy-server", "show-destroyed-state", "recreate-bootstrap-session",
    "disable-auto-restore", "trigger-restore", "settle-wait",
    "cleanup-bootstrap-session",
    "list-sessions", "list-windows", "list-panes",
    "show-restore-log", "verification-capture-2", "attach-to-target-session",
    "settle-wait", "verification-capture-3", "recording-stop", "cleanup", "terminate" >>

\* the same list with the screen clear that follows cleanup-bootstrap-session
StatesWithClear ==
    SubSeq(ListedStates, 1, 16) \o << "clear-screen" >> \o SubSeq(ListedStates, 17, 27)

\* C1 as stated: a completed run against a well-formed endpoint passes through
\* exactly the listed states, in order, nothing skipped, repeated or inserted.
C1_ListedOrder ==
    (phase = "done" /\ wellFormed) =>
        (StateSeq(trace) = ListedStates /\ InProgramOrder(trace))

\* C1 amended: against a well-formed endpoint the run passes through the
\* listed states in order with one more state, the screen clear between
\* cleanup-bootstrap-session and the second list-sessions; at every moment the
\* states passed are a prefix of that list, and a completed run has passed all.
C1_OrderWithClear ==
    wellFormed =>
        /\ IsPrefix(StateSeq(trace), StatesWithClear)
        /\ InProgramOrder(trace)
        /\ phase = "done" => StateSeq(trace) = StatesWithClear

C1_Witness ==
    /\ phase = "done"
    /\ wellFormed
    /\ Len(StateSeq(trace)) = 28
    /\ \E i \in 1..Len(trace) : trace[i].state = "clear-screen"

StopsOn(tr, h) ==
    Cardinality({ i \in 1..Len(tr) : tr[i].tool = "shell_stop" /\ tr[i].sid = h })

\* C2: in every finished run in which shell_start returned a handle, exactly
\* one shell_stop was issued against that handle.
C2_ExactlyOneStop ==
    (Finished /\ sid # "") => StopsOn(trace, sid) = 1

RemediationPrinted == \E i \in 1..Len(console) : console[i] = "remediation"
SuccessPrinted     == \E i \in 1..Len(console) : console[i] = "success"

\* C3: when the connection or the handshake fails, main ends through
\* sys.exit(1) after the remediation message, and no scenario statement ran.
C3_ConnectFailureExit ==
    (Finished /\ failStage \in {"connect", "handshake"}) =>
        (phase = "exit1" /\ exitStatus = 1 /\ RemediationPrinted /\ trace = << >>)

\* C4: a failure after the handshake is never treated as a connection
\* failure: no remediation message, no sys.exit(1); the exception is re-raised.
C4_LaterFailureReraised ==
    (Finished /\ failStage \in {"call", "decode", "sid", "download"}) =>
        (phase = "raised" /\ ~RemediationPrinted)

\* C5: when the text of a response is not JSON (empty text and a response
\* without text included), call_tool returns {"raw": text} and does not raise.
C5_RawFallback ==
    /\ failStage # "decode"
    /\ (lastCall.returned /\ ~json_loads(lastText).ok) => result = RawFallback(lastText)

C5_Witness ==
    /\ lastCall.returned
    /\ lastText = ""
    /\ result = RawFallback("")
    /\ phase = "scenario"

\* C6: the line call_tool prints never contains the session_id value, and
\* the arguments handed to the RPC session carry session_id = sid.
C6_SessionIdNotLogged ==
    (lastCall.tool \notin {"", "shell_start"}) =>
        /\ ArgHas(lastCall.args, "session_id")
        /\ ArgOf(lastCall.args, "session_id") = sid
        /\ sid \in Handles
        /\ ~Contains(sid, lastCall.line)

C6_Witness ==
    /\ lastCall.tool = "shell_screenshot"
    /\ ArgOf(lastCall.args, "session_id") \in Handles
    /\ Contains("name='verify-saved-json'", lastCall.line)

\* the name arguments of the capture and recording-stop invocations, in order
ArtifactNames(tr) ==
    LET cs == SelectSeq(tr, LAMBDA e : e.kind = "call" /\
                            e.tool \in {"shell_screenshot", "shell_record_stop"})
    IN  [ i \in 1..Len(cs) |-> cs[i].arg ]

\* the file name of path p in the output directory is name plus an extension
NamedAfter(p, name) ==
    \E ext \in {".png", ".gif"} : p = OUTPUT_DIR \o "/" \o name \o ext

FileCount(fs, p) == Cardinality({ i \in 1..Len(fs) : fs[i].path = p })

ArtifactsMatchNames ==
    LET names == ArtifactNames(trace) IN
    /\ Len(written) = Len(names)
    /\ \A i \in 1..Len(names) :
          /\ NamedAfter(written[i], names[i])
          /\ FileCount(files, written[i]) = 1

\* C7 as stated: a completed run against a well-formed endpoint downloads
\* three artifacts, each named after the name argument of its invocation.
C7_ThreeArtifacts ==
    (phase = "done" /\ wellFormed) => (Len(written) = 3 /\ ArtifactsMatchNames)

\* C7 amended: a completed run against a well-formed endpoint downloads four
\* artifacts, one per capture (three) and one for recording-stop, each named
\* after the name argument of its invocation: verify-saved-json,
\* verify-restored-sessions, verify-agent-tui, demo-save-restore.
C7_FourArtifacts ==
    (phase = "done" /\ wellFormed) =>
        /\ ArtifactNames(trace) = << "verify-saved-json", "verify-restored-sessions",
                                     "verify-agent-tui", "demo-save-restore" >>
        /\ Len(written) = 4
        /\ ArtifactsMatchNames

C7_Witness ==
    /\ phase = "done"
    /\ wellFormed
    /\ Len(written) = 4
    /\ written[4] = OUTPUT_DIR \o "/demo-save-restore.gif"

\* C8: a failing download aborts the scenario: the download is the last
\* statement executed, the run never reaches the success message or exit
\* status 0, and it ends with a non-zero status.
C8_DownloadFailureFatal ==
    (failStage = "download") =>
        /\ phase \in {"except", "exit1", "raised"}
        /\ trace[Len(trace)].kind = "download"
        /\ demo_save_restore[ip].kind = "download"
        /\ exc # NoExc
        /\ ~SuccessPrinted
        /\ exitStatus # 0
        /\ Finished => exitStatus = 1

C8_Witness ==
    /\ failStage = "download"
    /\ lastDl.do = "fetch"
    /\ lastDl.raised
    /\ Finished
    /\ exc.type = "PermissionError"

BothKeys(d) == HasKey(d, "download_url") /\ HasKey(d, "filename")

C10_OneFileInOutputDir ==
    (lastDl.do = "fetch" /\ lastDl.wrote) =>
        FileCount(files, OUTPUT_DIR \o "/" \o Get(lastDl.data, "filename").s) = 1

(***************************************************************************)
(* Properties of the order of invocations                                  *)
(***************************************************************************)
Positions(tr, tool) == { i \in 1..Len(tr) : tr[i].kind = "call" /\ tr[i].tool = tool }

ReachedStop == Positions(trace, "shell_stop") # {}

\* C11: once shell_stop has been issued, nothing more is issued in the run:
\* no invocation with or without the handle, no wait, no download.
C11_StopIsLast ==
    \A i \in Positions(trace, "shell_stop") :
        /\ i = Len(trace)
        /\ trace[i].sid = sid
        /\ \A j \in 1..Len(trace) : (j # i /\ trace[j].sid = sid) => j < i

C11_Witness ==
    /\ phase = "done"
    /\ ReachedStop
    /\ trace[Len(trace)].tool = "shell_stop"
    /\ trace[Len(trace)].sid \in Handles
    /\ trace[Len(trace) - 1].arg = "exit\r"

\* C13: every value call_tool returns is a mapping, whatever the text of the
\* response decodes to, and download never fails on the shape of its argument.
C13_ResultIsMapping ==
    /\ lastCall.returned => result.t = "dict"
    /\ lastDl.do # "raise"

PromptCommand == "export PS1='$ '\r"

\* C16: when a capture (shell_record_start or shell_screenshot) is issued, the
\* invocations before it began with shell_start, the local prompt
\* normalization, the ssh entry, the remote prompt normalization and the
\* screen clear, in that order, and shell_record_start came right after.
C16_CaptureAfterSetup ==
    LET cs == Calls(trace) IN
    \A i \in 1..Len(cs) :
        cs[i].tool \in {"shell_record_start", "shell_screenshot"} =>
            /\ i >= 6
            /\ cs[1].tool = "shell_start"
            /\ cs[2].tool = "shell_send" /\ cs[2].arg = PromptCommand
            /\ cs[3].tool = "shell_send" /\ cs[3].arg = "ssh " \o DEMO_HOST \o "\r"
            /\ cs[4].tool = "shell_send" /\ cs[4].arg = PromptCommand
            /\ cs[5].tool = "shell_send" /\ cs[5].arg = "clear\r"
            /\ cs[6].tool = "shell_record_start"

C16_Witness ==
    LET cs == Calls(trace) IN
    /\ Len(cs) >= 6
    /\ cs[5].arg = "clear\r"
    /\ cs[6].tool = "shell_record_start"
    /\ \E i \in 1..Len(cs) : cs[i].tool = "shell_screenshot"

\* C18: a run that reaches shell_stop has issued shell_record_start once and
\* shell_record_stop once, the start before the stop, the three screenshots
\* between them, and the stop before the three cleanup sends and shell_stop.
C18_RecordingBrackets ==
    ReachedStop =>
        LET starts == Positions(trace, "shell_record_start")
            stops  == Positions(trace, "shell_record_stop")
            shots  == Positions(trace, "shell_screenshot")
            clean  == { i \in 1..Len(trace) : trace[i].state = "cleanup" }
        IN  /\ Cardinality(starts) = 1
            /\ Cardinality(stops) = 1
            /\ Cardinality(shots) = 3
            /\ Cardinality(clean) = 3
            /\ Cardinality(Positions(trace, "shell_stop")) = 1
            /\ \A a \in starts, z \in stops :
                  /\ a < z
                  /\ \A p \in shots : a < p /\ p < z
                  /\ \A c \in clean : z < c
                  /\ \A t \in Positions(trace, "shell_stop") : z < t /\ \A c \in clean : c < t

C18_Witness ==
    /\ ReachedStop
    /\ Cardinality(Positions(trace, "shell_screenshot")) = 3
    /\ Cardinality(Positions(trace, "shell_record_stop")) = 1
    /\ ~wellFormed

\* the sends issued while the recording runs: after shell_record_start and
\* before shell_record_stop
RecordedSends(tr) ==
    LET starts == Positions(tr, "shell_record_start")
        stops  == Positions(tr, "shell_record_stop")
    IN  { i \in 1..Len(tr) :
            /\ tr[i].kind = "call" /\ tr[i].tool = "shell_send"
            /\ \E a \in starts : a < i
            /\ \A z \in stops : i < z }

NewSessionCommand == "tmux new-session -d -s main\r"

\* C15 as stated: while the recording runs, the statement after every
\* shell_send is a wait.
C15_WaitAfterEverySend ==
    \A i \in RecordedSends(trace) : i < Len(trace) => trace[i + 1].kind = "wait"

\* C15 amended: while the recording runs, the statement after every shell_send
\* is a wait, except after the send that recreates the bootstrap session
\* (tmux new-session), which is followed at once by the send that disables
\* auto-restore; the wait comes after that second send.
C15_WaitAfterSendButNewSession ==
    \A i \in RecordedSends(trace) : i < Len(trace) =>
        IF trace[i].arg = NewSessionCommand
        THEN /\ trace[i + 1].kind = "call"
             /\ trace[i + 1].state = "disable-auto-restore"
             /\ i + 1 < Len(trace) => trace[i + 2].kind = "wait"
        ELSE trace[i + 1].kind = "wait"

C15_Witness ==
    /\ \E i \in RecordedSends(trace) :
          trace[i].arg = NewSessionCommand /\ i + 2 <= Len(trace) /\ trace[i + 2].secs = 5
    /\ \E i \in RecordedSends(trace) :
          trace[i].state = "trigger-restore" /\ i < Len(trace) /\ trace[i + 1].secs = 150
    /\ Positions(trace, "shell_record_stop") # {}

\* C17: no statement is executed twice, and when session.call_tool raises, the
\* failing invocation is the last statement executed: the exception leaves
\* the scenario and reaches main's handler.
C17_NoRetry ==
    /\ InProgramOrder(trace)
    /\ failStage = "call" =>
          /\ phase \in {"except", "exit1", "raised"}
          /\ exc \in CallExcs
          /\ ~lastCall.returned
          /\ trace[Len(trace)].kind = "call"
          /\ trace[Len(trace)].idx = ip
          /\ trace[Len(trace)].tool = lastCall.tool

C17_Witness ==
    /\ failStage = "call"
    /\ Finished
    /\ lastCall.tool = "shell_record_stop"
    /\ Len(written) = 3

CarriesReference(v) == v.t = "dict" /\ BothKeys(v)

\* the reference in result is being handled: download is the statement about
\* to run, or download has run on this very result and has fetched it (or has
\* failed fetching it, which ends the run)
ReferenceHandled ==
    \/ /\ phase = "scenario"
       /\ ip <= Len(demo_save_restore)
       /\ demo_save_restore[ip].kind = "download"
    \/ /\ lastDl.data = result
       /\ lastDl.do = "fetch"
       /\ \/ lastDl.wrote /\ demo_save_restore[ip - 1].kind = "download"
          \/ lastDl.raised /\ failStage = "download"

\* C14 as stated: whenever the result of an invocation, of any tool, carries an
\* artifact reference, the reference is downloaded before anything else is
\* issued.
C14_EveryReferenceDownloaded ==
    (lastCall.returned /\ CarriesReference(result)) => ReferenceHandled

\* C14 amended: whenever the result of a shell_screenshot or shell_record_stop
\* invocation carries an artifact reference, the reference is downloaded
\* before the next invocation is issued; the results of the other invocations
\* (shell_start, shell_send, shell_record_start, shell_stop) are not inspected.
C14_CaptureReferenceDownloaded ==
    (/\ lastCall.returned
     /\ lastCall.tool \in {"shell_screenshot", "shell_record_stop"}
     /\ CarriesReference(result)) => ReferenceHandled

C14_Witness ==
    /\ lastCall.returned
    /\ lastCall.tool = "shell_record_stop"
    /\ CarriesReference(result)
    /\ lastDl.data = result
    /\ lastDl.wrote
    /\ demo_save_restore[ip].tool = "shell_send"

(***************************************************************************)
(* C12                                                                     *)
(***************************************************************************)
\* `shell` is the raw fallback: the text of the shell_start response was
\* not JSON
RawAtStart == shell.t = "dict" /\ HasKey(shell, "raw")

\* a failure that is not the consequence of a text that is not JSON: the
\* RPC raised, download raised or its fetch did, or shell_start answered
\* with JSON that has no session id
OtherFailure ==
    \/ failStage \in {"call", "download"}
    \/ failStage = "sid" /\ ~RawAtStart

\* the last invocation returned the raw fallback: the text of its response
\* was not JSON
RawReturned == lastCall.returned /\ result = RawFallback(lastText)

\* C12: a response whose text is not JSON, at any invocation of the
\* scenario, shell_start included, is not fatal: the invocation returns the
\* raw fallback and, unless something else fails, nothing is raised after
\* it and the run ends after shell_stop with the success line.
C12_DecodeFailureNonFatal ==
    (RawReturned /\ ~OtherFailure) =>
        /\ failStage = ""
        /\ Finished => (phase = "done" /\ ReachedStop)

(***************************************************************************)
(* C19                                                                     *)
(***************************************************************************)
Sent(tr, input) ==
    { i \in 1..Len(tr) : tr[i].kind = "call" /\ tr[i].tool = "shell_send" /\ tr[i].arg = input }

\* the order of the three commands in a run that reached shell_stop
ContinuumCommandOrder ==
    /\ \A r \in Sent(trace, RestoreCommand) :
          \E d \in Sent(trace, DisableCommand) : d < r
    /\ \A stop \in Positions(trace, "shell_stop") :
          \E e \in Sent(trace, EnableCommand) :
             /\ e < stop
             /\ Positions(trace, "shell_record_stop") # {}
             /\ \A rs \in Positions(trace, "shell_record_stop") : rs < e
    /\ remote.restoredWith = "off"

====
